---- MODULE Spec2Model ----
(***************************************************************************)
(* The virtualization and scroll-offset engine of preact-tv-navigation:    *)
(* the VirtualizedList component, the scroll translation policies it       *)
(* applies and the focus index that SpatialNavigationVirtualizedList-      *)
(* WithScroll feeds it.                                                    *)
(*                                                                         *)
(* Lengths are counted in half pixels: every pixel length of the program   *)
(* is an even number here, so that the halving in computeCenterTranslation *)
(* is exact on integers.  Array indices are the program's 0-based indices; *)
(* At(s, k) reads s[k] of a JavaScript array.                              *)
(***************************************************************************)
EXTENDS Integers, Sequences, FiniteSets, TLC

\* ------------------------------------------------------------------------
\* Bounds of the model
\* ------------------------------------------------------------------------
MaxItems == 3        \* data.length ranges over 0..MaxItems
MaxItemPx == 2       \* an item is 1 or MaxItemPx pixels long
MaxListPx == 3       \* the list viewport is 1..MaxListPx pixels long
MaxAdditional == 1   \* additionalItemsRendered ranges over 0..MaxAdditional
MaxThreshold == 1    \* onEndReachedThresholdItemsNumber ranges over 0..MaxThreshold
MaxGridItems == 5    \* the data of a grid has 0..MaxGridItems items
MaxColumns == 3      \* numberOfColumns ranges over 0..MaxColumns
MaxMeasurements == 2 \* the measuring effect of a size giver runs 1..MaxMeasurements times
MaxIntervals == 2    \* at most MaxIntervals intervals are set by the scroll arrows

\* ------------------------------------------------------------------------
\* JavaScript values
\* ------------------------------------------------------------------------
\* A value that may be undefined: <<>> is undefined, <<x>> is the number x.
undefined == <<>>
Defined(x) == <<x>>
ValueOf(opt) == opt[1]

Min(a, b) == IF a < b THEN a ELSE b
Max(a, b) == IF a > b THEN a ELSE b
CeilDiv(a, b) == (a + b - 1) \div b

At(s, k) == s[k + 1]

NoError == "none"
Unmounted == "unmounted"
Diverges == "diverges"
HeaderSizeMissing == "You must provide a headerSize when using a header"
HeaderMissing == "You must provide a header when using a headerSize"
UnsupportedConfiguration == "jump-on-scroll scroll behavior is not supported with dynamic item size"
InvalidConfiguration == "Invalid scroll behavior"

ScrollBehavior == {"stick-to-start", "stick-to-end", "jump-on-scroll", "center"}
\* A tag outside the ScrollBehavior type, as an untyped caller can pass it.
BehaviorTags == ScrollBehavior \cup {"unknown"}

\* itemSize: number | ((item: T) => number).  An item of data is represented
\* by the length the consumer's function gives it.
FixedItemSize(px) == [fn |-> FALSE, px |-> px]
DynamicItemSize == [fn |-> TRUE, px |-> 0]
ItemLengths == {2, 2 * MaxItemPx}
ItemSizes == {FixedItemSize(px) : px \in ItemLengths} \cup {DynamicItemSize}
ListSizes == {2 * k : k \in 1..MaxListPx}

\* typeof itemSizeInPx === 'function' ? itemSizeInPx(item) : itemSizeInPx
ItemSizeOf(itemSizeInPx, item) == IF itemSizeInPx.fn THEN item ELSE itemSizeInPx.px

\* ------------------------------------------------------------------------
\* SizeModel
\* ------------------------------------------------------------------------
RECURSIVE SumOfSizes(_, _, _, _)
SumOfSizes(data, itemSize, from, to) ==
  IF from >= to THEN 0
  ELSE ItemSizeOf(itemSize, At(data, from)) + SumOfSizes(data, itemSize, from + 1, to)

\* cumulativeExtent: the sum of the extents over [from, to); count * extent
\* in fixed mode.
getSizeInPxFromOneItemToAnother(data, itemSize, from, to) ==
  IF itemSize.fn THEN SumOfSizes(data, itemSize, from, to)
  ELSE Max(to - from, 0) * itemSize.px

RECURSIVE ItemsConsumed(_, _, _, _, _)
ItemsConsumed(data, itemSize, listSizeInPx, count, acc) ==
  IF acc >= listSizeInPx \/ count >= Len(data) THEN count
  ELSE ItemsConsumed(data, itemSize, listSizeInPx, count + 1,
                     acc + ItemSizeOf(itemSize, At(data, count)))

\* visibleCount: 0 for empty data; ceil(viewport / extent) in fixed mode; in
\* dynamic mode the number of items consumed from index 0 until their
\* cumulative extent reaches the viewport.
getNumberOfItemsVisibleOnScreen(data, listSizeInPx, itemSize) ==
  IF Len(data) = 0 THEN 0
  ELSE IF itemSize.fn THEN ItemsConsumed(data, itemSize, listSizeInPx, 0, 0)
  ELSE CeilDiv(listSizeInPx, itemSize.px)

\* ------------------------------------------------------------------------
\* WindowCalculator
\* ------------------------------------------------------------------------
\* overscanCount
getAdditionalNumberOfItemsRendered(scrollBehavior, numberOfItemsVisibleOnScreen, additionalItemsRendered) ==
  IF scrollBehavior = "jump-on-scroll" THEN 2 * numberOfItemsVisibleOnScreen
  ELSE numberOfItemsVisibleOnScreen + 2 * additionalItemsRendered

clamp(x, lo, hi) == Min(Max(x, lo), hi)

\* range
getRange(data, currentlyFocusedItemIndex, numberOfRenderedItems, numberOfItemsVisibleOnScreen, scrollBehavior) ==
  LET start == clamp(currentlyFocusedItemIndex - (numberOfRenderedItems \div 2), 0,
                     Max(Len(data) - numberOfRenderedItems, 0))
  IN  [start |-> start, end |-> Min(start + numberOfRenderedItems, Len(data))]

\* ------------------------------------------------------------------------
\* ScrollOffsetPolicy: computeTranslation and the four policies
\* ------------------------------------------------------------------------
\* computeStickToStartTranslation with the two branches exchanged.
computeStickToStartTranslationSwapped(currentlyFocusedItemIndex, itemSizeInPx, data, maxPossibleLeftAlignedIndex) ==
  LET scrollOffset ==
        IF currentlyFocusedItemIndex < maxPossibleLeftAlignedIndex
        THEN getSizeInPxFromOneItemToAnother(data, itemSizeInPx, 0, maxPossibleLeftAlignedIndex)
        ELSE getSizeInPxFromOneItemToAnother(data, itemSizeInPx, 0, currentlyFocusedItemIndex)
  IN  -scrollOffset

computeStickToStartTranslation(currentlyFocusedItemIndex, itemSizeInPx, data, maxPossibleLeftAlignedIndex) ==
  LET scrollOffset ==
        IF currentlyFocusedItemIndex < maxPossibleLeftAlignedIndex
        THEN getSizeInPxFromOneItemToAnother(data, itemSizeInPx, 0, currentlyFocusedItemIndex)
        ELSE getSizeInPxFromOneItemToAnother(data, itemSizeInPx, 0, maxPossibleLeftAlignedIndex)
  IN  -scrollOffset

\* computeStickToEndTranslation that forgets the size of the focused item.
computeStickToEndTranslationNoItem(currentlyFocusedItemIndex, itemSizeInPx, data, listSizeInPx, maxPossibleRightAlignedIndex) ==
  IF currentlyFocusedItemIndex <= maxPossibleRightAlignedIndex THEN 0
  ELSE -(getSizeInPxFromOneItemToAnother(data, itemSizeInPx, 0, currentlyFocusedItemIndex)
           - listSizeInPx)

computeStickToEndTranslation(currentlyFocusedItemIndex, itemSizeInPx, data, listSizeInPx, maxPossibleRightAlignedIndex) ==
  IF currentlyFocusedItemIndex <= maxPossibleRightAlignedIndex THEN 0
  ELSE
    LET currentlyFocusedItemSize ==
          ItemSizeOf(itemSizeInPx, At(data, currentlyFocusedItemIndex))
        sizeOfListFromStartToCurrentlyFocusedItem ==
          getSizeInPxFromOneItemToAnother(data, itemSizeInPx, 0, currentlyFocusedItemIndex)
        scrollOffset ==
          sizeOfListFromStartToCurrentlyFocusedItem + currentlyFocusedItemSize - listSizeInPx
    IN  -scrollOffset

\* A computeJumpOnScrollTranslation without the check of the type of itemSizeInPx.
JumpOnScrollNeverThrows(itemSizeInPx) == FALSE

\* The caller checks typeof itemSizeInPx === 'function' first (JumpOnScrollThrows).
JumpOnScrollThrows(itemSizeInPx) == itemSizeInPx.fn

\* computeJumpOnScrollTranslation that aligns the focused item, not its page.
computeJumpOnScrollTranslationPerItem(currentlyFocusedItemIndex, itemSizeInPx, nbMaxOfItems, numberOfItemsVisibleOnScreen) ==
  LET maxPossibleLeftAlignedIndex == Max(nbMaxOfItems - numberOfItemsVisibleOnScreen, 0)
      leftAlignedIndex == Min(currentlyFocusedItemIndex, maxPossibleLeftAlignedIndex)
  IN  -(leftAlignedIndex * itemSizeInPx.px)

computeJumpOnScrollTranslation(currentlyFocusedItemIndex, itemSizeInPx, nbMaxOfItems, numberOfItemsVisibleOnScreen) ==
  LET maxPossibleLeftAlignedIndex == Max(nbMaxOfItems - numberOfItemsVisibleOnScreen, 0)
      indexOfItemToFocus ==
        currentlyFocusedItemIndex - (currentlyFocusedItemIndex % numberOfItemsVisibleOnScreen)
      leftAlignedIndex == Min(indexOfItemToFocus, maxPossibleLeftAlignedIndex)
      scrollOffset == leftAlignedIndex * itemSizeInPx.px
  IN  -scrollOffset

\* computeCenterTranslation that centers the leading edge of the item, not its middle.
computeCenterTranslationLeadingEdge(currentlyFocusedItemIndex, itemSizeInPx, data, listSizeInPx, numberOfItemsVisibleOnScreen, maxPossibleRightAlignedIndex) ==
  LET centerThreshold == numberOfItemsVisibleOnScreen \div 2
  IN  IF currentlyFocusedItemIndex < centerThreshold THEN 0
      ELSE -(getSizeInPxFromOneItemToAnother(data, itemSizeInPx, 0, currentlyFocusedItemIndex)
               - (listSizeInPx \div 2))

\* computeCenterTranslation that keeps centering up to the last item.
computeCenterTranslationNoTail(currentlyFocusedItemIndex, itemSizeInPx, data, listSizeInPx, numberOfItemsVisibleOnScreen, maxPossibleRightAlignedIndex) ==
  LET centerThreshold == numberOfItemsVisibleOnScreen \div 2
      currentItemSize == ItemSizeOf(itemSizeInPx, At(data, currentlyFocusedItemIndex))
      itemOffset ==
        getSizeInPxFromOneItemToAnother(data, itemSizeInPx, 0, currentlyFocusedItemIndex)
  IN  IF currentlyFocusedItemIndex < centerThreshold THEN 0
      ELSE -(itemOffset - ((listSizeInPx - currentItemSize) \div 2))

computeCenterTranslation(currentlyFocusedItemIndex, itemSizeInPx, data, listSizeInPx, numberOfItemsVisibleOnScreen, maxPossibleRightAlignedIndex) ==
  LET centerThreshold == numberOfItemsVisibleOnScreen \div 2
  IN  IF currentlyFocusedItemIndex < centerThreshold THEN 0
      ELSE IF currentlyFocusedItemIndex >= Len(data) - centerThreshold
      THEN computeStickToEndTranslation(currentlyFocusedItemIndex, itemSizeInPx, data,
                                        listSizeInPx, maxPossibleRightAlignedIndex)
      ELSE
        LET currentItemSize == ItemSizeOf(itemSizeInPx, At(data, currentlyFocusedItemIndex))
            itemOffset ==
              getSizeInPxFromOneItemToAnother(data, itemSizeInPx, 0, currentlyFocusedItemIndex)
            centerOffset == (listSizeInPx - currentItemSize) \div 2
        IN  -(itemOffset - centerOffset)

\* The arguments of computeTranslation, as one record.
TranslationArgs(currentlyFocusedItemIndex, itemSizeInPx, nbMaxOfItems, numberOfItemsVisibleOnScreen, scrollBehavior, data, listSizeInPx, maxPossibleLeftAlignedIndex, maxPossibleRightAlignedIndex) ==
  [currentlyFocusedItemIndex |-> currentlyFocusedItemIndex,
   itemSizeInPx |-> itemSizeInPx,
   nbMaxOfItems |-> nbMaxOfItems,
   numberOfItemsVisibleOnScreen |-> numberOfItemsVisibleOnScreen,
   scrollBehavior |-> scrollBehavior,
   data |-> data,
   listSizeInPx |-> listSizeInPx,
   maxPossibleLeftAlignedIndex |-> maxPossibleLeftAlignedIndex,
   maxPossibleRightAlignedIndex |-> maxPossibleRightAlignedIndex]

Returned(x) == [error |-> NoError, value |-> x]
Thrown(e) == [error |-> e, value |-> 0]

\* The result is [error, value]: error is the message of the Error thrown, or
\* NoError with the translation returned.
computeTranslation(a) ==
  CASE a.scrollBehavior = "stick-to-start" ->
         Returned(computeStickToStartTranslation(a.currentlyFocusedItemIndex, a.itemSizeInPx,
                                                 a.data, a.maxPossibleLeftAlignedIndex))
    [] a.scrollBehavior = "stick-to-end" ->
         Returned(computeStickToEndTranslation(a.currentlyFocusedItemIndex, a.itemSizeInPx,
                                               a.data, a.listSizeInPx,
                                               a.maxPossibleRightAlignedIndex))
    [] a.scrollBehavior = "jump-on-scroll" ->
         IF JumpOnScrollThrows(a.itemSizeInPx) THEN Thrown(UnsupportedConfiguration)
         ELSE Returned(computeJumpOnScrollTranslation(a.currentlyFocusedItemIndex,
                                                      a.itemSizeInPx, a.nbMaxOfItems,
                                                      a.numberOfItemsVisibleOnScreen))
    [] a.scrollBehavior = "center" ->
         Returned(computeCenterTranslation(a.currentlyFocusedItemIndex, a.itemSizeInPx,
                                           a.data, a.listSizeInPx,
                                           a.numberOfItemsVisibleOnScreen,
                                           a.maxPossibleRightAlignedIndex))
    [] OTHER -> Thrown(InvalidConfiguration)

\* ------------------------------------------------------------------------
\* OffsetTable
\* ------------------------------------------------------------------------
maxLeftAlignedIndex(nbMaxOfItems, numberOfItemsVisibleOnScreen) ==
  Max(nbMaxOfItems - numberOfItemsVisibleOnScreen, 0)

maxRightAlignedIndex(nbMaxOfItems, numberOfItemsVisibleOnScreen) ==
  Max(nbMaxOfItems - numberOfItemsVisibleOnScreen, 0)

\* The arguments of computeAllScrollOffsets, as one record.
OffsetArgs(itemSize, nbMaxOfItems, numberOfItemsVisibleOnScreen, scrollBehavior, data, listSizeInPx) ==
  [itemSize |-> itemSize,
   nbMaxOfItems |-> nbMaxOfItems,
   numberOfItemsVisibleOnScreen |-> numberOfItemsVisibleOnScreen,
   scrollBehavior |-> scrollBehavior,
   data |-> data,
   listSizeInPx |-> listSizeInPx]

\* The offset of index i by the policy of b.scrollBehavior, read from the
\* running sums: prefix is the extent of [0, i) and frozenPrefix the extent of
\* [0, min(i, maxLeftAlignedIndex)).
OffsetFromPrefix(b, i, prefix, frozenPrefix) ==
  LET extent == ItemSizeOf(b.itemSize, At(b.data, i))
      maxRight == maxRightAlignedIndex(b.nbMaxOfItems, b.numberOfItemsVisibleOnScreen)
      maxLeft == maxLeftAlignedIndex(b.nbMaxOfItems, b.numberOfItemsVisibleOnScreen)
      half == b.numberOfItemsVisibleOnScreen \div 2
      stickToEnd == IF i <= maxRight THEN 0 ELSE -(prefix + extent - b.listSizeInPx)
  IN  CASE b.scrollBehavior = "stick-to-start" -> Returned(-frozenPrefix)
        [] b.scrollBehavior = "stick-to-end" -> Returned(stickToEnd)
        [] b.scrollBehavior = "center" ->
             Returned(IF i < half THEN 0
                      ELSE IF i >= Len(b.data) - half THEN stickToEnd
                      ELSE -(prefix - ((b.listSizeInPx - extent) \div 2)))
        [] b.scrollBehavior = "jump-on-scroll" ->
             IF b.itemSize.fn THEN Thrown(UnsupportedConfiguration)
             ELSE LET page == i \div b.numberOfItemsVisibleOnScreen
                      leftAlignedIndex == Min(page * b.numberOfItemsVisibleOnScreen, maxLeft)
                  IN  Returned(-(leftAlignedIndex * b.itemSize.px))
        [] OTHER -> Thrown(InvalidConfiguration)

RECURSIVE BuildOffsets(_, _, _, _, _)
BuildOffsets(b, i, prefix, frozenPrefix, table) ==
  IF i >= Len(b.data) THEN [error |-> NoError, offsets |-> table]
  ELSE
    LET frozen ==
          IF i <= maxLeftAlignedIndex(b.nbMaxOfItems, b.numberOfItemsVisibleOnScreen)
          THEN prefix ELSE frozenPrefix
        r == OffsetFromPrefix(b, i, prefix, frozen)
    IN  IF r.error # NoError THEN [error |-> r.error, offsets |-> <<>>]
        ELSE BuildOffsets(b, i + 1, prefix + ItemSizeOf(b.itemSize, At(b.data, i)), frozen,
                          Append(table, r.value))

\* build: one offset per index of data, in one pass that keeps a running
\* prefix sum.  The result is [error, offsets].
computeAllScrollOffsets(b) == BuildOffsets(b, 0, 0, 0, <<>>)

\* ------------------------------------------------------------------------
\* convertToGrid
\* ------------------------------------------------------------------------
\* data.slice(from, to)
Slice(data, from, to) == SubSeq(data, from + 1, Min(to, Len(data)))

\* for (let i = 0; i < data.length; i += numberOfColumns) rows.push(data.slice(i, i + numberOfColumns))
RECURSIVE ChunkRows(_, _, _, _)
ChunkRows(data, numberOfColumns, i, rows) ==
  IF i >= Len(data) THEN rows
  ELSE ChunkRows(data, numberOfColumns, i + numberOfColumns,
                 Append(rows, Slice(data, i, i + numberOfColumns)))

\* Whether the loop of convertToGrid ends: with numberOfColumns <= 0 and an
\* item in data, i never reaches data.length.
ChunkingTerminates(data, numberOfColumns) ==
  \/ Len(data) = 0
  \/ numberOfColumns = undefined
  \/ ValueOf(numberOfColumns) >= 1

\* The rows the loop leaves when it ends.  With numberOfColumns undefined, i
\* is NaN after the first pass, which pushed data.slice(0, NaN), an empty row.
Chunks(data, numberOfColumns) ==
  IF Len(data) = 0 THEN <<>>
  ELSE IF numberOfColumns = undefined THEN << <<>> >>
  ELSE ChunkRows(data, ValueOf(numberOfColumns), 0, <<>>)

\* convertToGrid that numbers the rows from 0 whether there is a header or not.
convertToGridUnshifted(data, numberOfColumns, header) ==
  LET rows == Chunks(data, numberOfColumns)
  IN  [index \in 1..Len(rows) |-> [items |-> rows[index], index |-> index - 1]]

\* convertToGrid that drops the last row when it is not full.
convertToGridFullRows(data, numberOfColumns, header) ==
  LET rows == Chunks(data, numberOfColumns)
      full == {index \in 1..Len(rows) : Len(rows[index]) = Len(rows[1])}
  IN  [index \in 1..Cardinality(full) |->
         [items |-> rows[index], index |-> IF header THEN index ELSE index - 1]]

\* The rows convertToGrid returns when its loop ends; header is whether a
\* header element was passed.
convertToGrid(data, numberOfColumns, header) ==
  LET rows == Chunks(data, numberOfColumns)
  IN  [index \in 1..Len(rows) |->
         [items |-> rows[index], index |-> IF header THEN index ELSE index - 1]]

\* ------------------------------------------------------------------------
\* VirtualizedList
\* ------------------------------------------------------------------------
VARIABLES
  data,                       \* props.data
  itemSize,                   \* props.itemSize
  listSizeInPx,               \* props.listSizeInPx
  scrollBehavior,             \* props.scrollBehavior
  additionalItemsRendered,    \* props.additionalItemsRendered
  nbMaxOfItems,               \* props.nbMaxOfItems, possibly undefined
  currentlyFocusedItemIndex,  \* state of SpatialNavigationVirtualizedListWithScroll
  memoDeps,                   \* dependencies the memoized allScrollOffsets was built for
  allScrollOffsets,           \* the memoized offset table
  offsetsRebuilt,             \* whether the last render ran the factory of the memo
  range,                      \* range of the last render
  dataSliceToRender,          \* index of every item the last render materialized
  newTranslationValue,        \* translation the last render applied, possibly undefined
  error,                      \* message of the Error the last render threw, or NoError
  onEndReachedThresholdItemsNumber,  \* props.onEndReachedThresholdItemsNumber
  onEndReached,               \* whether props.onEndReached is a function, not undefined
  onEndReachedCalls,          \* calls of onEndReached by the effects of the last render
  gridData,                   \* data of SpatialNavigationVirtualizedGrid
  numberOfColumns,            \* its numberOfColumns, undefined when an untyped caller omits it
  header,                     \* whether it is given a header element
  headerSize,                 \* its headerSize, possibly undefined
  itemHeight,                 \* its itemHeight
  gridRowsWithHeaderIfProvided,  \* the data it passes to the list
  hasHeader,                  \* hasHeader of its last render
  gridError,                  \* NoError, the Error its render threw, or Unmounted, Diverges
  hasAlreadyRendered,         \* state of VirtualizedListWithSize
  isVertical,                 \* props.orientation === 'vertical' at its last render
  measureTimers,              \* pending setTimeout(measureSize), each with its closure
  resizeObserver,             \* the observer of its container, or undefined
  measureAttempts,            \* calls of measureSize since it was mounted
  deviceType,                 \* state of SpatialNavigationDeviceTypeProvider
  deviceTypeRef,              \* deviceTypeRef.current
  scrollingIntervalId,        \* its _scrollingIntervalId, possibly undefined (null)
  scrollIntervals,            \* the setInterval timers that were set and not cleared
  pointerOver,                \* the scroll arrow the pointer is over, or "none"
  parentScrolledTo            \* index of the item the parent scroll context was last told
                              \* to scroll to; undefined when the list has no such parent

props == <<data, itemSize, listSizeInPx, scrollBehavior, additionalItemsRendered, nbMaxOfItems,
           onEndReachedThresholdItemsNumber, onEndReached>>
memo == <<memoDeps, allScrollOffsets, offsetsRebuilt>>
rendered == <<range, dataSliceToRender, newTranslationValue>>
list == <<props, currentlyFocusedItemIndex, memo, rendered, error, onEndReachedCalls>>
gridProps == <<gridData, numberOfColumns, header, headerSize, itemHeight>>
grid == <<gridProps, gridRowsWithHeaderIfProvided, hasHeader, gridError>>
sizeGiver == <<hasAlreadyRendered, isVertical, measureTimers, resizeObserver, measureAttempts>>
pointer == <<deviceType, deviceTypeRef, scrollingIntervalId, scrollIntervals, pointerOver>>
vars == <<list, grid, sizeGiver, pointer, parentScrolledTo>>

DataValues == UNION {[1..n -> ItemLengths] : n \in 0..MaxItems}
\* nbMaxOfItems is left out, or is the number of items the list expects in
\* all: more than are loaded.
NbMaxOfItemsValues == {undefined, Defined(MaxItems + 1)}
AdditionalItemsRenderedValues == 0..MaxAdditional
FocusArguments == (-1)..MaxItems
OnEndReachedThresholdValues == 0..MaxThreshold
\* onEndReachedThresholdItemsNumber = 3 when the prop is left out.
DefaultOnEndReachedThresholdItemsNumber == 3

Props(d, s, l, b, a, n, f, t, e) ==
  [data |-> d, itemSize |-> s, listSizeInPx |-> l, scrollBehavior |-> b,
   additionalItemsRendered |-> a, nbMaxOfItems |-> n, currentlyFocusedItemIndex |-> f,
   onEndReachedThresholdItemsNumber |-> t, onEndReached |-> e]

\* nbMaxOfItems !== undefined ? nbMaxOfItems : data.length
ResolvedNbMaxOfItems(p) ==
  IF p.nbMaxOfItems # undefined THEN ValueOf(p.nbMaxOfItems) ELSE Len(p.data)

NumberOfItemsVisibleOnScreen(p) ==
  getNumberOfItemsVisibleOnScreen(p.data, p.listSizeInPx, p.itemSize)

\* A window size that leaves additionalItemsRendered out.
NumberOfItemsToRenderWithoutOverscan(p) ==
  getAdditionalNumberOfItemsRendered(p.scrollBehavior, NumberOfItemsVisibleOnScreen(p), 0)

NumberOfItemsToRender(p) ==
  getAdditionalNumberOfItemsRendered(p.scrollBehavior, NumberOfItemsVisibleOnScreen(p),
                                     p.additionalItemsRendered)

\* A render that asks for a window of numberOfItemsVisibleOnScreen items.
RangeOfVisibleItems(p) ==
  getRange(p.data, p.currentlyFocusedItemIndex, NumberOfItemsVisibleOnScreen(p),
           NumberOfItemsVisibleOnScreen(p), p.scrollBehavior)

\* A render that asks for the window of index 0 whatever item has the focus.
RangeOfFirstItem(p) ==
  getRange(p.data, 0, NumberOfItemsToRender(p), NumberOfItemsVisibleOnScreen(p),
           p.scrollBehavior)

RangeOf(p) ==
  getRange(p.data, p.currentlyFocusedItemIndex, NumberOfItemsToRender(p),
           NumberOfItemsVisibleOnScreen(p), p.scrollBehavior)

\* data.slice(range.start, range.end + 1), as the index of each item of the slice.
DataSliceToRender(p, r) ==
  LET first == Min(Max(r.start, 0), Len(p.data))
      last == Min(Max(r.end + 1, 0), Len(p.data))
  IN  [virtualIndex \in 1..Max(last - first, 0) |-> r.start + (virtualIndex - 1)]

AllScrollOffsetsArgs(p) ==
  OffsetArgs(p.itemSize, ResolvedNbMaxOfItems(p), NumberOfItemsVisibleOnScreen(p),
             p.scrollBehavior, p.data, p.listSizeInPx)

\* A dependency array that leaves data out.
AllScrollOffsetsDepsWithoutData(p) ==
  <<p.itemSize, p.listSizeInPx, p.nbMaxOfItems, NumberOfItemsVisibleOnScreen(p),
    p.scrollBehavior>>

\* The dependency array of the useMemo of allScrollOffsets.
AllScrollOffsetsDeps(p) ==
  <<p.data, p.itemSize, p.listSizeInPx, p.nbMaxOfItems, NumberOfItemsVisibleOnScreen(p),
    p.scrollBehavior>>

\* useMemo: the factory runs when a dependency changed since the value was
\* built, and the value and dependencies are stored when it returns.
AllScrollOffsetsMemo(p, deps, value) ==
  IF deps = Defined(AllScrollOffsetsDeps(p))
  THEN [error |-> NoError, offsets |-> value]
  ELSE computeAllScrollOffsets(AllScrollOffsetsArgs(p))

\* allScrollOffsets[currentlyFocusedItemIndex]
Lookup(offsets, index) ==
  IF index >= 0 /\ index < Len(offsets) THEN Defined(At(offsets, index)) ELSE undefined

\* One call of the VirtualizedList function with props p, the memo holding
\* value for deps.
VirtualizedList(p, deps, value) ==
  LET r == RangeOf(p)
      built == AllScrollOffsetsMemo(p, deps, value)
  IN  IF built.error # NoError
      THEN [error |-> built.error, memoDeps |-> deps, allScrollOffsets |-> value,
            offsetsRebuilt |-> TRUE,
            range |-> [start |-> 0, end |-> 0], dataSliceToRender |-> <<>>,
            newTranslationValue |-> undefined]
      ELSE [error |-> NoError,
            memoDeps |-> Defined(AllScrollOffsetsDeps(p)),
            allScrollOffsets |-> built.offsets,
            offsetsRebuilt |-> deps # Defined(AllScrollOffsetsDeps(p)),
            range |-> r,
            dataSliceToRender |-> DataSliceToRender(p, r),
            newTranslationValue |-> Lookup(built.offsets, p.currentlyFocusedItemIndex)]

\* The effect of useOnEndReached when it runs: whether it calls onEndReached.
useOnEndReachedSkipsThreshold(numberOfItems, r, focusedIndex, threshold) ==
  IF numberOfItems = 0 \/ r.end = 0 THEN FALSE
  ELSE focusedIndex >= Max(numberOfItems - 1, 0)

useOnEndReached(numberOfItems, r, focusedIndex, threshold) ==
  IF numberOfItems = 0 \/ r.end = 0 THEN FALSE
  ELSE focusedIndex >= Max(numberOfItems - 1 - threshold, 0)

\* The dependency array of the effect, but for onEndReached itself.
OnEndReachedDepsWithoutIndex(p, r) ==
  <<r.end, p.onEndReachedThresholdItemsNumber, Len(p.data)>>

OnEndReachedDeps(p, r) ==
  <<r.end, p.currentlyFocusedItemIndex, p.onEndReachedThresholdItemsNumber, Len(p.data)>>

\* Calls of onEndReached after a render that returned out for props p: the
\* effect runs after the first render (previous is undefined) and after a
\* render that changed a dependency.
OnEndReachedCalls(p, out, previous, newCallback) ==
  IF out.error # NoError THEN 0
  ELSE IF p.onEndReached
          /\ (newCallback \/ previous # Defined(OnEndReachedDeps(p, out.range)))
          /\ useOnEndReached(Len(p.data), out.range, p.currentlyFocusedItemIndex,
                             p.onEndReachedThresholdItemsNumber)
       THEN 1
       ELSE 0

\* The component renders with props and focus index p, onEndReached being a
\* new function or the one of the previous render; what it returns is the new
\* state.
ListRenders(p, deps, value, previous, newCallback) ==
  \E out \in {VirtualizedList(p, deps, value)} :
      /\ onEndReachedThresholdItemsNumber' = p.onEndReachedThresholdItemsNumber
      /\ onEndReached' = p.onEndReached
      /\ onEndReachedCalls' = OnEndReachedCalls(p, out, previous, newCallback)
      /\ data' = p.data
      /\ itemSize' = p.itemSize
      /\ listSizeInPx' = p.listSizeInPx
      /\ scrollBehavior' = p.scrollBehavior
      /\ additionalItemsRendered' = p.additionalItemsRendered
      /\ nbMaxOfItems' = p.nbMaxOfItems
      /\ currentlyFocusedItemIndex' = p.currentlyFocusedItemIndex
      /\ memoDeps' = out.memoDeps
      /\ allScrollOffsets' = out.allScrollOffsets
      /\ offsetsRebuilt' = out.offsetsRebuilt
      /\ range' = out.range
      /\ dataSliceToRender' = out.dataSliceToRender
      /\ newTranslationValue' = out.newTranslationValue
      /\ error' = out.error

\* A render of the list given its listSizeInPx by its parent.
RenderWith(p, deps, value, previous, newCallback) ==
  /\ ListRenders(p, deps, value, previous, newCallback)
  /\ UNCHANGED <<grid, sizeGiver, pointer, parentScrolledTo>>

Current == Props(data, itemSize, listSizeInPx, scrollBehavior, additionalItemsRendered,
                 nbMaxOfItems, currentlyFocusedItemIndex, onEndReachedThresholdItemsNumber,
                 onEndReached)

\* A render that follows the render of the current state.
Render(p, deps, value) ==
  RenderWith(p, deps, value, Defined(OnEndReachedDeps(Current, range)), FALSE)

\* First render of a list whose props are drawn from the sets given:
\* useState(0) for the focus index, nothing memoized yet.
FirstRender(dataValues, itemSizes, behaviors, nbMaxOfItemsValues, thresholds, e) ==
  \E d \in dataValues, s \in itemSizes, l \in ListSizes, b \in behaviors,
     a \in AdditionalItemsRenderedValues, n \in nbMaxOfItemsValues, t \in thresholds :
    LET p == Props(d, s, l, b, a, n, 0, t, e)
        out == VirtualizedList(p, undefined, <<>>)
    IN  /\ onEndReachedThresholdItemsNumber = t
        /\ onEndReached = e
        /\ onEndReachedCalls = OnEndReachedCalls(p, out, undefined, FALSE)
        /\ data = d
        /\ itemSize = s
        /\ listSizeInPx = l
        /\ scrollBehavior = b
        /\ additionalItemsRendered = a
        /\ nbMaxOfItems = n
        /\ currentlyFocusedItemIndex = 0
        /\ memoDeps = out.memoDeps
        /\ allScrollOffsets = out.allScrollOffsets
        /\ offsetsRebuilt = out.offsetsRebuilt
        /\ range = out.range
        /\ dataSliceToRender = out.dataSliceToRender
        /\ newTranslationValue = out.newTranslationValue
        /\ error = out.error

\* No grid is mounted.
GridUnmounted ==
  /\ gridData = <<>>
  /\ numberOfColumns = undefined
  /\ header = FALSE
  /\ headerSize = undefined
  /\ itemHeight = 0
  /\ gridRowsWithHeaderIfProvided = <<>>
  /\ hasHeader = FALSE
  /\ gridError = Unmounted

\* A list outside a SpatialNavigationDeviceTypeProvider, with no scroll view
\* above it: useDeviceType answers what detectDeviceType finds, which is
\* never 'remotePointer', so no scroll arrow is rendered.
NoPointer ==
  /\ deviceType = "tv"
  /\ deviceTypeRef = "tv"
  /\ scrollingIntervalId = undefined
  /\ scrollIntervals = <<>>
  /\ pointerOver = "none"
  /\ parentScrolledTo = undefined

\* No VirtualizedListWithSize is followed: listSizeInPx is a prop of the list.
SizeGiverUnmounted ==
  /\ hasAlreadyRendered = FALSE
  /\ isVertical = FALSE
  /\ measureTimers = <<>>
  /\ resizeObserver = undefined
  /\ measureAttempts = 0

\* A list alone, given no onEndReached and no onEndReachedThresholdItemsNumber.
Init ==
  /\ FirstRender(DataValues, ItemSizes, BehaviorTags, NbMaxOfItemsValues,
                 {DefaultOnEndReachedThresholdItemsNumber}, FALSE)
  /\ GridUnmounted
  /\ SizeGiverUnmounted
  /\ NoPointer

\* An Error thrown by a render is caught by no component: the list renders
\* no more.
Alive == error = NoError

\* setCurrentlyFocusedItemIndexCallback(index): the index is set unless
\* deviceTypeRef.current is 'remotePointer'.
setCurrentlyFocusedItemIndexCallback(index) ==
  IF deviceTypeRef # "remotePointer"
  THEN ListRenders([Current EXCEPT !.currentlyFocusedItemIndex = index], memoDeps,
                   allScrollOffsets, Defined(OnEndReachedDeps(Current, range)), FALSE)
  ELSE UNCHANGED list

\* makeParentsScrollToNodeIfNeeded: the scroll view above the list, if there
\* is one, is told to scroll to the item.
makeParentsScrollToNodeIfNeeded(index) ==
  parentScrolledTo' = IF parentScrolledTo = undefined THEN undefined ELSE Defined(index)

\* scrollToItem of the wrapper of the item at index: the item took the focus.
scrollToItem(index) ==
  /\ setCurrentlyFocusedItemIndexCallback(index)
  /\ makeParentsScrollToNodeIfNeeded(index)
  /\ UNCHANGED <<grid, sizeGiver, pointer>>

ScrollToItem ==
  /\ Alive
  /\ \E k \in 1..Len(dataSliceToRender) : scrollToItem(dataSliceToRender[k])

\* ref.focus(index)
Focus ==
  /\ Alive
  /\ \E index \in FocusArguments :
       Render([Current EXCEPT !.currentlyFocusedItemIndex = index], memoDeps, allScrollOffsets)

\* The parent renders the list with new props.
\* More items were loaded at the end of data, or data lost its last items.
DataUpdates(d) ==
  {Append(d, x) : x \in {y \in ItemLengths : Len(d) < MaxItems}}
    \cup {SubSeq(d, 1, n) : n \in 0..(Len(d) - 1)}

SetData ==
  /\ Alive
  /\ \E d \in DataUpdates(data) :
       Render([Current EXCEPT !.data = d], memoDeps, allScrollOffsets)

SetItemSize ==
  /\ Alive
  /\ \E s \in ItemSizes :
       Render([Current EXCEPT !.itemSize = s], memoDeps, allScrollOffsets)

SetListSizeInPx ==
  /\ Alive
  /\ \E l \in ListSizes :
       Render([Current EXCEPT !.listSizeInPx = l], memoDeps, allScrollOffsets)

SetScrollBehavior ==
  /\ Alive
  /\ \E b \in BehaviorTags :
       Render([Current EXCEPT !.scrollBehavior = b], memoDeps, allScrollOffsets)

SetAdditionalItemsRendered ==
  /\ Alive
  /\ \E a \in AdditionalItemsRenderedValues :
       Render([Current EXCEPT !.additionalItemsRendered = a], memoDeps, allScrollOffsets)

SetNbMaxOfItems ==
  /\ Alive
  /\ \E n \in NbMaxOfItemsValues :
       Render([Current EXCEPT !.nbMaxOfItems = n], memoDeps, allScrollOffsets)

SetOnEndReachedThresholdItemsNumber ==
  /\ Alive
  /\ \E t \in OnEndReachedThresholdValues :
       Render([Current EXCEPT !.onEndReachedThresholdItemsNumber = t], memoDeps,
              allScrollOffsets)

\* The parent renders the list with a new onEndReached function.
SetOnEndReached ==
  /\ Alive
  /\ onEndReached
  /\ RenderWith(Current, memoDeps, allScrollOffsets,
                Defined(OnEndReachedDeps(Current, range)), TRUE)

Next ==
  \/ ScrollToItem
  \/ Focus
  \/ SetData
  \/ SetItemSize
  \/ SetListSizeInPx
  \/ SetScrollBehavior
  \/ SetAdditionalItemsRendered
  \/ SetNbMaxOfItems

Spec == Init /\ [][Next]_vars

\* The list of a paginated feed, its items one pixel long: the parent sets
\* the threshold, replaces onEndReached and the data, and the focus moves.
PaginationInit ==
  /\ FirstRender(DataValues, {FixedItemSize(2)}, {"stick-to-start", "jump-on-scroll"},
                 {undefined}, OnEndReachedThresholdValues, TRUE)
  /\ GridUnmounted
  /\ SizeGiverUnmounted
  /\ NoPointer

PaginationNext ==
  \/ ScrollToItem
  \/ Focus
  \/ SetData
  \/ SetOnEndReachedThresholdItemsNumber
  \/ SetOnEndReached

PaginationSpec == PaginationInit /\ [][PaginationNext]_vars

\* The list of a rail given no nbMaxOfItems, its items one pixel long or
\* measured by a function: the focus moves and the parent changes the data,
\* the viewport, the behavior and additionalItemsRendered.
WindowInit ==
  /\ FirstRender(DataValues, {FixedItemSize(2), DynamicItemSize}, ScrollBehavior,
                 {undefined}, {DefaultOnEndReachedThresholdItemsNumber}, FALSE)
  /\ GridUnmounted
  /\ SizeGiverUnmounted
  /\ NoPointer

SetKnownScrollBehavior ==
  /\ Alive
  /\ \E b \in ScrollBehavior :
       Render([Current EXCEPT !.scrollBehavior = b], memoDeps, allScrollOffsets)

WindowNext ==
  \/ Focus
  \/ SetData
  \/ SetListSizeInPx
  \/ SetKnownScrollBehavior
  \/ SetAdditionalItemsRendered

WindowSpec == WindowInit /\ [][WindowNext]_vars

\* ------------------------------------------------------------------------
\* VirtualizedListWithSize
\* ------------------------------------------------------------------------
maxRetries == 20
minAcceptableSize == 2 * 100

\* What the container reports as its offsetWidth, offsetHeight or
\* contentRect: 0, 50 or 120 pixels.
ContainerSizes == {0, 2 * 50, 2 * 120}

\* ResizeObserver is defined in the browser or is not.
ResizeObservers == {undefined, Defined([hasAlreadyRendered |-> FALSE])}

Remove(s, k) == SubSeq(s, 1, k - 1) \o SubSeq(s, k + 1, Len(s))

\* The tree is mounted: no render of the list threw.
SizeGiverAlive == error \in {NoError, Unmounted}

\* The size giver renders its placeholder: no VirtualizedList is rendered.
ListAwaitsSize(d, s, b, a, n) ==
  /\ data = d
  /\ itemSize = s
  /\ listSizeInPx = 0
  /\ scrollBehavior = b
  /\ additionalItemsRendered = a
  /\ nbMaxOfItems = n
  /\ onEndReachedThresholdItemsNumber = DefaultOnEndReachedThresholdItemsNumber
  /\ onEndReached = FALSE
  /\ currentlyFocusedItemIndex = 0
  /\ memoDeps = undefined
  /\ allScrollOffsets = <<>>
  /\ offsetsRebuilt = FALSE
  /\ range = [start |-> 0, end |-> 0]
  /\ dataSliceToRender = <<>>
  /\ newTranslationValue = undefined
  /\ error = Unmounted
  /\ onEndReachedCalls = 0

\* A placeholder that leaves the items of the list in place.
ListNotRenderedKeepingItems(size) ==
  /\ listSizeInPx' = size
  /\ UNCHANGED <<data, itemSize, scrollBehavior, additionalItemsRendered, nbMaxOfItems,
                 onEndReachedThresholdItemsNumber, onEndReached, currentlyFocusedItemIndex,
                 memo, rendered, error, onEndReachedCalls>>

\* The size giver renders its placeholder in place of the list, which is
\* unmounted with what it memoized.
ListNotRendered(size) ==
  /\ listSizeInPx' = size
  /\ memoDeps' = undefined
  /\ allScrollOffsets' = <<>>
  /\ offsetsRebuilt' = FALSE
  /\ range' = [start |-> 0, end |-> 0]
  /\ dataSliceToRender' = <<>>
  /\ newTranslationValue' = undefined
  /\ error' = Unmounted
  /\ onEndReachedCalls' = 0
  /\ UNCHANGED <<data, itemSize, scrollBehavior, additionalItemsRendered, nbMaxOfItems,
                 onEndReachedThresholdItemsNumber, onEndReached, currentlyFocusedItemIndex>>

\* hasAlreadyRendered && listSizeInPx > 0 ? <VirtualizedList .../> : placeholder
SizeGiverRenders(size, measured) ==
  IF measured /\ size > 0
  THEN IF error = Unmounted
       THEN ListRenders([Current EXCEPT !.listSizeInPx = size], undefined, <<>>,
                        undefined, FALSE)
       ELSE ListRenders([Current EXCEPT !.listSizeInPx = size], memoDeps, allScrollOffsets,
                        Defined(OnEndReachedDeps(Current, range)), FALSE)
  ELSE ListNotRendered(size)

\* The second effect after a render: when hasAlreadyRendered or isVertical
\* changed, the observer is disconnected and a new one observes the
\* container, its callback closing over the hasAlreadyRendered of the render.
ObserverAfterRender(measured) ==
  IF resizeObserver = undefined THEN undefined
  ELSE Defined([hasAlreadyRendered |-> measured])

\* setListSizeInPx(size); setHasAlreadyRendered(true); and the render and
\* effects that follow, timers being the timers left pending.
AcceptSize(size, timers) ==
  /\ hasAlreadyRendered' = TRUE
  /\ SizeGiverRenders(size, TRUE)
  /\ measureTimers' = timers
  /\ resizeObserver' = IF hasAlreadyRendered THEN resizeObserver
                         ELSE ObserverAfterRender(TRUE)
  /\ UNCHANGED isVertical

\* A timer fires and calls measureSize.
MeasureSize ==
  /\ SizeGiverAlive
  /\ \E k \in 1..Len(measureTimers), size \in ContainerSizes :
       /\ measureAttempts' = measureAttempts + 1
       /\ IF size >= minAcceptableSize
          THEN AcceptSize(size, Remove(measureTimers, k))
          ELSE IF measureTimers[k].retryCount < maxRetries
               THEN /\ measureTimers' = [measureTimers EXCEPT ![k].retryCount = @ + 1]
                    /\ UNCHANGED <<list, hasAlreadyRendered, isVertical, resizeObserver>>
               ELSE AcceptSize(size, Remove(measureTimers, k))
       /\ UNCHANGED <<grid, pointer, parentScrolledTo>>

\* The callback of the ResizeObserver, for the one entry of the container.
ResizeObserved ==
  /\ SizeGiverAlive
  /\ resizeObserver # undefined
  /\ \E size \in ContainerSizes :
       /\ size # 0
       /\ ~ValueOf(resizeObserver).hasAlreadyRendered
       /\ AcceptSize(size, measureTimers)
  /\ UNCHANGED <<measureAttempts, grid, pointer, parentScrolledTo>>

\* The size giver is mounted with the props of a list, its container
\* mounted with it: listSizeInPx is 0, the first effect set the first timer
\* and the second observes the container where ResizeObserver is defined.
SizeGiverMounts(dataValues, itemSizes, behaviors, orientations) ==
  /\ \E d \in dataValues, s \in itemSizes, b \in behaviors,
        a \in AdditionalItemsRenderedValues :
       ListAwaitsSize(d, s, b, a, undefined)
  /\ hasAlreadyRendered = FALSE
  /\ isVertical \in orientations
  /\ measureTimers = <<[retryCount |-> 0]>>
  /\ resizeObserver \in ResizeObservers
  /\ measureAttempts = 0
  /\ GridUnmounted
  /\ NoPointer

\* Lists of one-pixel items measured by their size giver, under every
\* behavior.
ViewportInit ==
  SizeGiverMounts({[k \in 1..n |-> 2] : n \in 0..MaxItems}, {FixedItemSize(2)},
                  ScrollBehavior, {FALSE})

ViewportNext ==
  \/ MeasureSize
  \/ ResizeObserved

ViewportSpec == ViewportInit /\ [][ViewportNext]_vars

\* The parent renders the size giver with the other orientation: both
\* effects run again.  While no size was accepted the first one sets a timer
\* for a new measureSize and clears no timer of the runs before it.
SetOrientation ==
  /\ SizeGiverAlive
  /\ ~hasAlreadyRendered => Len(measureTimers) < MaxMeasurements
  /\ isVertical' = ~isVertical
  /\ measureTimers' = IF hasAlreadyRendered THEN measureTimers
                       ELSE Append(measureTimers, [retryCount |-> 0])
  /\ resizeObserver' = ObserverAfterRender(hasAlreadyRendered)
  /\ SizeGiverRenders(listSizeInPx, hasAlreadyRendered)
  /\ UNCHANGED <<hasAlreadyRendered, measureAttempts, grid, pointer, parentScrolledTo>>

\* The size giver of a list of two items, horizontal or vertical, whose
\* parent may change the orientation.
MeasureInit ==
  SizeGiverMounts({<<2, 2>>}, {FixedItemSize(2)}, {"stick-to-start"}, BOOLEAN)

MeasureNext ==
  \/ MeasureSize
  \/ ResizeObserved
  \/ SetOrientation

MeasureSpec == MeasureInit /\ [][MeasureNext]_vars

\* ------------------------------------------------------------------------
\* The device type and the scroll arrows of the pointer
\* ------------------------------------------------------------------------
\* Of the DeviceType union, 'remotePointer' and two of the values the code
\* treats like one another.
DeviceTypes == {"remoteKeys", "remotePointer", "tv"}
Directions == {"descending", "ascending"}

\* The list of SpatialNavigationVirtualizedListWithScroll after its first
\* render, under a SpatialNavigationDeviceTypeProvider and in a scroll view:
\* useState(providedDeviceType), useRef(deviceType), no interval set, nothing
\* scrolled to yet.
PointerInit ==
  /\ FirstRender({[k \in 1..n |-> 2] : n \in 0..MaxItems}, {FixedItemSize(2)},
                 {"stick-to-start"}, {undefined},
                 {DefaultOnEndReachedThresholdItemsNumber}, FALSE)
  /\ listSizeInPx = 2
  /\ additionalItemsRendered = 0
  /\ deviceType \in DeviceTypes
  /\ deviceTypeRef = deviceType
  /\ scrollingIntervalId = undefined
  /\ scrollIntervals = <<>>
  /\ pointerOver = "none"
  /\ parentScrolledTo = Defined(-1)
  /\ GridUnmounted
  /\ SizeGiverUnmounted

\* setDeviceType(t).  The arrows are rendered only while deviceType is
\* 'remotePointer': once they are gone the pointer is over none of them, and
\* no handler of theirs is called.
SetDeviceType ==
  /\ Alive
  /\ \E t \in DeviceTypes \ {deviceType} :
       /\ deviceType' = t
       /\ pointerOver' = IF t = "remotePointer" THEN pointerOver ELSE "none"
  /\ UNCHANGED <<deviceTypeRef, scrollingIntervalId, scrollIntervals>>
  /\ UNCHANGED <<list, grid, sizeGiver, parentScrolledTo>>

\* The effect of the provider that follows a render with a new deviceType.
UpdateDeviceTypeRef ==
  /\ Alive
  /\ deviceTypeRef # deviceType
  /\ deviceTypeRef' = deviceType
  /\ UNCHANGED <<deviceType, scrollingIntervalId, scrollIntervals, pointerOver>>
  /\ UNCHANGED <<list, grid, sizeGiver, parentScrolledTo>>

\* onMouseEnterDescending and onMouseEnterAscending: setInterval, then
\* setScrollingId(id).  The callback of the interval keeps the data.length of
\* the render that made the handler.
OnMouseEnter ==
  /\ Alive
  /\ deviceType = "remotePointer"
  /\ pointerOver = "none"
  /\ Len(scrollIntervals) < MaxIntervals
  /\ \E direction \in Directions :
       /\ scrollIntervals' = Append(scrollIntervals,
                                    [direction |-> direction, dataLength |-> Len(data)])
       /\ scrollingIntervalId' = Defined(Len(scrollIntervals) + 1)
       /\ pointerOver' = direction
  /\ UNCHANGED <<deviceType, deviceTypeRef>>
  /\ UNCHANGED <<list, grid, sizeGiver, parentScrolledTo>>

\* onMouseLeave: setScrollingId(null), and nothing else.
OnMouseLeave ==
  /\ Alive
  /\ pointerOver # "none"
  /\ scrollingIntervalId' = undefined
  /\ pointerOver' = "none"
  /\ UNCHANGED <<deviceType, deviceTypeRef, scrollIntervals>>
  /\ UNCHANGED <<list, grid, sizeGiver, parentScrolledTo>>

\* What the updater of a callback returns for the index it is given.
NextIndexOnTickUnclamped(direction, dataLength, index) ==
  IF direction = "descending" THEN index - 1 ELSE index + 1

NextIndexOnTick(direction, dataLength, index) ==
  IF direction = "descending"
  THEN IF index > 0 THEN index - 1 ELSE index
  ELSE IF index < dataLength - 1 THEN index + 1 ELSE index

\* The k-th interval fires: setCurrentlyFocusedItemIndex(updater), and the
\* list renders if the index changed.
IntervalTick(k) ==
  /\ Alive
  /\ \E next \in {NextIndexOnTick(scrollIntervals[k].direction,
                                  scrollIntervals[k].dataLength,
                                  currentlyFocusedItemIndex)} :
       IF next # currentlyFocusedItemIndex
       THEN ListRenders([Current EXCEPT !.currentlyFocusedItemIndex = next], memoDeps,
                        allScrollOffsets, Defined(OnEndReachedDeps(Current, range)), FALSE)
       ELSE UNCHANGED list
  /\ UNCHANGED <<grid, sizeGiver, pointer, parentScrolledTo>>

IntervalTicks == \E k \in 1..Len(scrollIntervals) : IntervalTick(k)

PointerNext ==
  \/ ScrollToItem
  \/ SetDeviceType
  \/ UpdateDeviceTypeRef
  \/ OnMouseEnter
  \/ OnMouseLeave
  \/ IntervalTicks

PointerSpec == PointerInit /\ [][PointerNext]_vars

\* ------------------------------------------------------------------------
\* SpatialNavigationVirtualizedGrid
\* ------------------------------------------------------------------------
\* The items of a grid are represented by their position in data.
GridDataValues == {[k \in 1..n |-> k - 1] : n \in 0..MaxGridItems}
NumberOfColumnsValues == {undefined} \cup {Defined(c) : c \in 0..MaxColumns}
HeaderSizes == {undefined, Defined(0), Defined(2 * MaxItemPx + 2)}

GridProps(d, c, h, hs, ih) ==
  [data |-> d, numberOfColumns |-> c, header |-> h, headerSize |-> hs, itemHeight |-> ih]

\* !!x of a number that may be undefined
Truthy(opt) == opt # undefined /\ ValueOf(opt) # 0

\* The header element: an object with a type.
HeaderElement == [type |-> "header"]

\* A grid that checks only that a header comes with a headerSize.
HeaderChecksOneWay(h, hs) ==
  IF h /\ ~Truthy(hs) THEN HeaderSizeMissing ELSE NoError

\* The two checks that open the render: the message of the Error thrown, or NoError.
HeaderChecks(h, hs) ==
  IF h /\ ~Truthy(hs) THEN HeaderSizeMissing
  ELSE IF Truthy(hs) /\ ~h THEN HeaderMissing
  ELSE NoError

itemSizeAsAFunction(g, item) ==
  IF (g.header /\ Truthy(g.headerSize)) /\ "type" \in DOMAIN item
  THEN ValueOf(g.headerSize)
  ELSE g.itemHeight

\* The itemSize the grid passes to the list, applied to an entry of its data:
\* itemSizeAsAFunction with a header, the number itemHeight without.
GridItemSize(g, item) ==
  IF g.header /\ Truthy(g.headerSize) THEN itemSizeAsAFunction(g, item) ELSE g.itemHeight

\* One call of the SpatialNavigationVirtualizedGrid function with props g.
SpatialNavigationVirtualizedGrid(g) ==
  IF HeaderChecks(g.header, g.headerSize) # NoError
  THEN [error |-> HeaderChecks(g.header, g.headerSize), hasHeader |-> FALSE, rows |-> <<>>]
  ELSE IF ~ChunkingTerminates(g.data, g.numberOfColumns)
  THEN [error |-> Diverges, hasHeader |-> g.header /\ Truthy(g.headerSize), rows |-> <<>>]
  ELSE
    LET gridRows == convertToGrid(g.data, g.numberOfColumns, g.header)
        withHeader == g.header /\ Truthy(g.headerSize)
    IN  [error |-> NoError, hasHeader |-> withHeader,
         rows |-> IF withHeader THEN <<HeaderElement>> \o gridRows ELSE gridRows]

GridRender(g) ==
  \E out \in {SpatialNavigationVirtualizedGrid(g)} :
      /\ gridData' = g.data
      /\ numberOfColumns' = g.numberOfColumns
      /\ header' = g.header
      /\ headerSize' = g.headerSize
      /\ itemHeight' = g.itemHeight
      /\ gridRowsWithHeaderIfProvided' = out.rows
      /\ hasHeader' = out.hasHeader
      /\ gridError' = out.error
      /\ UNCHANGED <<list, sizeGiver, pointer, parentScrolledTo>>

GridCurrent == GridProps(gridData, numberOfColumns, header, headerSize, itemHeight)

\* GridRow: the calls of renderItem for the items of a row, column by column.
GridRow(row, rowIndex) ==
  [columnIndex \in 1..Len(row.items) |->
     [item |-> row.items[columnIndex],
      index |-> rowIndex * ValueOf(numberOfColumns) + (columnIndex - 1)]]

\* renderHeaderThenRows that hands the index of the list to the row.
renderHeaderThenRowsWithListIndex(item, index) ==
  IF "type" \in DOMAIN item THEN <<>> ELSE GridRow(item, index)

\* renderHeaderThenRows, called by the list with an entry of its data and the
\* index of the entry: the calls of renderItem that follow.  The header is
\* returned as it is.
renderHeaderThenRows(item, index) ==
  IF "type" \in DOMAIN item
  THEN <<>>
  ELSE GridRow(item, IF hasHeader THEN index - 1 ELSE index)

\* The list of the grid is not followed here.
ListUnmounted ==
  /\ data = <<>>
  /\ itemSize = FixedItemSize(0)
  /\ listSizeInPx = 0
  /\ scrollBehavior = "stick-to-start"
  /\ additionalItemsRendered = 0
  /\ nbMaxOfItems = undefined
  /\ onEndReachedThresholdItemsNumber = DefaultOnEndReachedThresholdItemsNumber
  /\ onEndReached = FALSE
  /\ currentlyFocusedItemIndex = 0
  /\ memoDeps = undefined
  /\ allScrollOffsets = <<>>
  /\ offsetsRebuilt = FALSE
  /\ range = [start |-> 0, end |-> 0]
  /\ dataSliceToRender = <<>>
  /\ newTranslationValue = undefined
  /\ error = Unmounted
  /\ onEndReachedCalls = 0

\* First render of a grid.
GridInit ==
  /\ ListUnmounted
  /\ SizeGiverUnmounted
  /\ NoPointer
  /\ \E d \in GridDataValues, c \in NumberOfColumnsValues, h \in BOOLEAN,
        hs \in HeaderSizes, ih \in ItemLengths :
       LET g == GridProps(d, c, h, hs, ih)
           out == SpatialNavigationVirtualizedGrid(g)
       IN  /\ gridData = d
           /\ numberOfColumns = c
           /\ header = h
           /\ headerSize = hs
           /\ itemHeight = ih
           /\ gridRowsWithHeaderIfProvided = out.rows
           /\ hasHeader = out.hasHeader
           /\ gridError = out.error

\* A render that threw or does not return is followed by no other.
GridAlive == gridError = NoError

\* The parent renders the grid with new props.
GridDataUpdates(d) ==
  (IF Len(d) < MaxGridItems THEN {Append(d, Len(d))} ELSE {})
    \cup {SubSeq(d, 1, n) : n \in 0..(Len(d) - 1)}

SetGridData ==
  /\ GridAlive
  /\ \E d \in GridDataUpdates(gridData) : GridRender([GridCurrent EXCEPT !.data = d])

SetNumberOfColumns ==
  /\ GridAlive
  /\ \E c \in NumberOfColumnsValues : GridRender([GridCurrent EXCEPT !.numberOfColumns = c])

SetHeader ==
  /\ GridAlive
  /\ \E h \in BOOLEAN, hs \in HeaderSizes :
       GridRender([GridCurrent EXCEPT !.header = h, !.headerSize = hs])

SetItemHeight ==
  /\ GridAlive
  /\ \E ih \in ItemLengths : GridRender([GridCurrent EXCEPT !.itemHeight = ih])

GridNext ==
  \/ SetGridData
  \/ SetNumberOfColumns
  \/ SetHeader
  \/ SetItemHeight

GridSpec == GridInit /\ [][GridNext]_vars

\* ------------------------------------------------------------------------
\* The quantities the properties speak of, in the current state
\* ------------------------------------------------------------------------
Indices == 0..(Len(data) - 1)
FocusInRange == currentlyFocusedItemIndex \in Indices
Visible == NumberOfItemsVisibleOnScreen(Current)
MaxLeft == maxLeftAlignedIndex(ResolvedNbMaxOfItems(Current), Visible)
MaxRight == maxRightAlignedIndex(ResolvedNbMaxOfItems(Current), Visible)
CumulativeExtent(from, to) == getSizeInPxFromOneItemToAnother(data, itemSize, from, to)
Extent(i) == ItemSizeOf(itemSize, At(data, i))
TotalExtent == CumulativeExtent(0, Len(data))

\* computeTranslation for index i, called with the inputs of the current state.
Policy(i) ==
  computeTranslation(TranslationArgs(i, itemSize, ResolvedNbMaxOfItems(Current), Visible,
                                     scrollBehavior, data, listSizeInPx, MaxLeft, MaxRight))

StickToStart(i) == computeStickToStartTranslation(i, itemSize, data, MaxLeft)
StickToEnd(i) == computeStickToEndTranslation(i, itemSize, data, listSizeInPx, MaxRight)
Center(i) == computeCenterTranslation(i, itemSize, data, listSizeInPx, Visible, MaxRight)
JumpOnScroll(i) ==
  computeJumpOnScrollTranslation(i, itemSize, ResolvedNbMaxOfItems(Current), Visible)

\* ------------------------------------------------------------------------
\* Properties
\* ------------------------------------------------------------------------

\* C1: whatever the scroll behavior, with at least one item and the focus
\* index i inside the data the range of the render satisfies
\* 0 <= start <= i < end <= N; with no item the range is empty.
RangeHoldsFocus ==
  Alive =>
    /\ (Len(data) >= 1 /\ FocusInRange) =>
         /\ 0 <= range.start
         /\ range.start <= currentlyFocusedItemIndex
         /\ currentlyFocusedItemIndex < range.end
         /\ range.end <= Len(data)
    /\ Len(data) = 0 => range.start = range.end

\* The focus is on the last of several items and the range does not start at 0.
RangeHoldsFocusWitness ==
  /\ Alive
  /\ Len(data) = MaxItems
  /\ currentlyFocusedItemIndex = Len(data) - 1
  /\ range.start > 0
  /\ range.end = Len(data)

\* C2: whatever the scroll behavior, the focused item is visible at the
\* translation applied: its extent overlaps the viewport
\* [-offset, -offset + listSizeInPx).
FocusedItemVisible ==
  (Alive /\ scrollBehavior \in ScrollBehavior /\ FocusInRange) =>
    LET offset == ValueOf(newTranslationValue)
        itemStart == CumulativeExtent(0, currentlyFocusedItemIndex)
        itemEnd == itemStart + Extent(currentlyFocusedItemIndex)
    IN  /\ newTranslationValue # undefined
        /\ itemStart < -offset + listSizeInPx
        /\ -offset < itemEnd

\* C3: every offset of the table keeps the content inside its bounds:
\* 0 <= -offset <= max(totalExtent - listSizeInPx, 0).
OffsetWithinContent ==
  (Alive /\ scrollBehavior \in ScrollBehavior) =>
    \A i \in 0..(Len(allScrollOffsets) - 1) :
      /\ 0 <= -At(allScrollOffsets, i)
      /\ -At(allScrollOffsets, i) <= Max(TotalExtent - listSizeInPx, 0)

\* C4: the items materialized are exactly the indices of [range.start,
\* range.end), and their number is min(numberOfItemsToRender, N).
RenderedIsHalfOpenRange ==
  Alive =>
    /\ {dataSliceToRender[k] : k \in 1..Len(dataSliceToRender)}
         = range.start..(range.end - 1)
    /\ Len(dataSliceToRender) = Min(NumberOfItemsToRender(Current), Len(data))

\* C5: with a focus index outside the data (and at least one item) the
\* translation applied is the offset of the nearest valid index, 0 or N-1.
LookupClampsFocusIndex ==
  (Alive /\ Len(data) >= 1 /\ ~FocusInRange) =>
    newTranslationValue =
      Defined(At(allScrollOffsets,
                 IF currentlyFocusedItemIndex < 0 THEN 0 ELSE Len(data) - 1))

\* C6: after any sequence of prop and focus changes, the offset table is the
\* one built from the current inputs and the translation applied is its entry
\* for the current focus index.
TableBuiltFromCurrentInputs ==
  Alive =>
    /\ computeAllScrollOffsets(AllScrollOffsetsArgs(Current)).error = NoError
    /\ allScrollOffsets = computeAllScrollOffsets(AllScrollOffsetsArgs(Current)).offsets
    /\ newTranslationValue = Lookup(allScrollOffsets, currentlyFocusedItemIndex)

\* The table was rebuilt by a render that came after a focus change, and the
\* translation applied scrolls the list.
TableBuiltFromCurrentInputsWitness ==
  /\ Alive
  /\ offsetsRebuilt
  /\ currentlyFocusedItemIndex > 0
  /\ FocusInRange
  /\ newTranslationValue # undefined
  /\ newTranslationValue # Defined(0)

StickToStartNonIncreasing ==
  (Alive /\ scrollBehavior = "stick-to-start") =>
    /\ Len(data) >= 1 => StickToStart(0) = 0
    /\ \A i, j \in Indices : i <= j => StickToStart(j) <= StickToStart(i)

\* Stick-to-start over items of different sizes, the last offsets frozen.
StickToStartNonIncreasingWitness ==
  /\ Alive
  /\ scrollBehavior = "stick-to-start"
  /\ itemSize.fn
  /\ Len(data) = MaxItems
  /\ \E i, j \in Indices : Extent(i) # Extent(j)
  /\ StickToStart(1) < StickToStart(0)
  /\ StickToStart(Len(data) - 1) = StickToStart(Len(data) - 2)
  /\ newTranslationValue = Defined(StickToStart(Len(data) - 1))
  /\ currentlyFocusedItemIndex = Len(data) - 1

\* C9: under stick-to-start every index from maxLeftAlignedIndex on has the
\* offset -cumulativeExtent(0, maxLeftAlignedIndex), and at that offset the
\* viewport does not reach past the end of a content at least one viewport long.
StickToStartFreezesAtLastPage ==
  (Alive /\ scrollBehavior = "stick-to-start") =>
    \A i \in Indices :
      i >= MaxLeft =>
        /\ StickToStart(i) = -CumulativeExtent(0, MaxLeft)
        /\ At(allScrollOffsets, i) = StickToStart(i)
        /\ TotalExtent >= listSizeInPx =>
             -StickToStart(i) + listSizeInPx <= TotalExtent

\* C10: under stick-to-end the offset is 0 up to maxRightAlignedIndex, and
\* past it the trailing edge of the focused item is the trailing edge of the
\* viewport.
StickToEndPinsTrailingEdge ==
  (Alive /\ scrollBehavior = "stick-to-end") =>
    \A i \in Indices :
      /\ i <= MaxRight => StickToEnd(i) = 0
      /\ i > MaxRight =>
           /\ StickToEnd(i) = -(CumulativeExtent(0, i) + Extent(i) - listSizeInPx)
           /\ -StickToEnd(i) + listSizeInPx = CumulativeExtent(0, i + 1)

\* Stick-to-end with the focus past maxRightAlignedIndex and the list scrolled.
StickToEndPinsTrailingEdgeWitness ==
  /\ Alive
  /\ scrollBehavior = "stick-to-end"
  /\ FocusInRange
  /\ currentlyFocusedItemIndex > MaxRight
  /\ newTranslationValue = Defined(StickToEnd(currentlyFocusedItemIndex))
  /\ StickToEnd(currentlyFocusedItemIndex) < 0

\* The list of the center scenario: 1000 items of 50 pixels in a viewport of
\* 500 pixels, 10 items visible.
CenterScenarioData == [k \in 1..1000 |-> 100]
CenterScenario(i) ==
  computeCenterTranslation(i, FixedItemSize(100), CenterScenarioData, 1000, 10,
                           maxRightAlignedIndex(1000, 10))

\* In the scenario the offset of 4 is 0 and the offset of 500 puts the middle
\* of item 500 within one item of the middle of the viewport.
CenterScenarioHolds ==
  /\ CenterScenario(4) = 0
  /\ LET itemMiddle == 500 * 100 + 50
         viewportMiddle == -CenterScenario(500) + 500
     IN  /\ itemMiddle - viewportMiddle <= 100
         /\ viewportMiddle - itemMiddle <= 100

\* C11: under center, with half = floor(visibleCount / 2), the offset of i is
\* 0 when i < half, else the stick-to-end offset of i when i >= N - half, else
\* -(cumulativeExtent(0, i) - (listSizeInPx - extent(i)) / 2); and in the list
\* of 1000 items of 50 pixels the offset of 4 is 0 and the offset of 500 puts
\* the middle of item 500 within one item of the middle of the viewport.
CenterThreeZones ==
  /\ (Alive /\ scrollBehavior = "center") =>
        \A i \in Indices :
          LET half == Visible \div 2
          IN  /\ Policy(i).error = NoError
              /\ Policy(i).value = Center(i)
              /\ Center(i) =
                   IF i < half THEN 0
                   ELSE IF i >= Len(data) - half THEN StickToEnd(i)
                   ELSE -(CumulativeExtent(0, i) - ((listSizeInPx - Extent(i)) \div 2))
  /\ CenterScenarioHolds

\* A centered list whose focus is in the tail and scrolled as stick-to-end
\* scrolls it, with an item before it that is centered.
CenterThreeZonesWitness ==
  /\ Alive
  /\ scrollBehavior = "center"
  /\ Len(data) = MaxItems
  /\ Visible \div 2 >= 1
  /\ currentlyFocusedItemIndex >= Len(data) - (Visible \div 2)
  /\ newTranslationValue = Defined(StickToEnd(currentlyFocusedItemIndex))
  /\ StickToEnd(currentlyFocusedItemIndex) < 0
  /\ \E i \in Indices :
       /\ i >= Visible \div 2
       /\ i < Len(data) - (Visible \div 2)
       /\ Center(i) < 0

\* The jump-on-scroll scenario: items of 50 pixels, 10 of them visible, in a
\* list of 1000.
JumpOnScrollScenario(i) == computeJumpOnScrollTranslation(i, FixedItemSize(100), 1000, 10)

JumpOnScrollScenarioHolds ==
  /\ \A i \in 0..9 : JumpOnScrollScenario(i) = 0
  /\ JumpOnScrollScenario(15) = -(2 * 500)

\* The offset of i under jump-on-scroll when the list counts n items in all.
JumpOnScrollPagesOf(n) ==
  (Alive /\ scrollBehavior = "jump-on-scroll") =>
    /\ \A i \in Indices :
         /\ Policy(i).error = NoError
         /\ Policy(i).value = JumpOnScroll(i)
         /\ JumpOnScroll(i) =
              -(Min((i \div Visible) * Visible, Max(n - Visible, 0)) * itemSize.px)
    /\ \A i, j \in Indices :
         (i \div Visible) = (j \div Visible) => JumpOnScroll(i) = JumpOnScroll(j)

\* C12: under jump-on-scroll with a fixed extent E and v >= 1 items visible,
\* offset(i) = -min(floor(i/v)*v, max(N - v, 0))*E with N the number of items
\* of data, so that two indices of one page have the same offset; with E = 50
\* and v = 10 the offsets of 0..9 are 0 and the offset of 15 is -500.
JumpOnScrollPagesByItemCount ==
  /\ JumpOnScrollPagesOf(Len(data))
  /\ JumpOnScrollScenarioHolds

\* C12, amended: the same with N the nbMaxOfItems the list was given, and the
\* number of items of data only when nbMaxOfItems is left out.
JumpOnScrollPagesByExpectedCount ==
  /\ JumpOnScrollPagesOf(ResolvedNbMaxOfItems(Current))
  /\ JumpOnScrollScenarioHolds

\* Jump-on-scroll with two items on the first page and the focus on a later
\* page, the list scrolled there.
JumpOnScrollPagesWitness ==
  /\ Alive
  /\ scrollBehavior = "jump-on-scroll"
  /\ Visible >= 2
  /\ FocusInRange
  /\ currentlyFocusedItemIndex \div Visible >= 1
  /\ newTranslationValue = Defined(JumpOnScroll(currentlyFocusedItemIndex))
  /\ JumpOnScroll(currentlyFocusedItemIndex) < 0
  /\ JumpOnScroll(0) = 0
  /\ JumpOnScroll(1) = 0

\* computeTranslation for index i of the current data under jump-on-scroll,
\* with v items visible.
JumpOnScrollPolicy(i, v) ==
  computeTranslation(TranslationArgs(i, itemSize, ResolvedNbMaxOfItems(Current), v,
                                     "jump-on-scroll", data, listSizeInPx, MaxLeft, MaxRight))

\* C13: jump-on-scroll with an itemSize function raises
\* UnsupportedConfiguration for every focus index and yields no offset: the
\* policy throws for every index, the render of a list that has an item
\* throws, and no translation is applied.
JumpOnScrollRejectsDynamicSize ==
  (scrollBehavior = "jump-on-scroll" /\ itemSize.fn) =>
    /\ \A i \in FocusArguments, v \in 1..MaxItems :
         JumpOnScrollPolicy(i, v) = Thrown(UnsupportedConfiguration)
    /\ Len(data) >= 1 => error = UnsupportedConfiguration
    /\ newTranslationValue = undefined

\* A list that rendered with offsets, then was given jump-on-scroll with an
\* itemSize function and threw.
JumpOnScrollRejectsDynamicSizeWitness ==
  /\ scrollBehavior = "jump-on-scroll"
  /\ itemSize.fn
  /\ error = UnsupportedConfiguration
  /\ Len(allScrollOffsets) >= 2
  /\ currentlyFocusedItemIndex >= 1

\* C14: a scroll behavior tag outside ScrollBehavior raises
\* InvalidConfiguration at construction, whatever the number of items (none
\* included): no render of a list with such a tag goes through, and nothing
\* is produced for rendering.
InvalidBehaviorRaisedAtConstruction ==
  scrollBehavior \notin ScrollBehavior =>
    /\ error = InvalidConfiguration
    /\ dataSliceToRender = <<>>
    /\ newTranslationValue = undefined

\* The predicate of the pagination trigger.
shouldFetchMore(focusIndex, n, thresholdCount) ==
  n > 0 /\ focusIndex >= Max(n - 1 - thresholdCount, 0)

\* The effect of useOnEndReached in the list of 1000 items of the scenarios,
\* 10 visible and 2 more rendered on each side.
PaginationScenario(focusIndex, thresholdCount) ==
  useOnEndReached(Len(CenterScenarioData),
                  getRange(CenterScenarioData, focusIndex, 14, 10, "stick-to-start"),
                  focusIndex, thresholdCount)

\* In the scenario onEndReached is called at 996 and not at 995 with a
\* threshold of 3.
PaginationScenarioHolds ==
  /\ PaginationScenario(996, 3)
  /\ ~PaginationScenario(995, 3)

\* C15: onEndReached is called exactly when N > 0 and
\* focusIndex >= max(N - 1 - threshold, 0): the effect decides by that
\* predicate in every render, a call was made only where it holds, it is never
\* made for N = 0, and it is made at 996 and not at 995 of 1000 items with a
\* threshold of 3.
OnEndReachedByPredicate ==
  /\ Alive =>
       (useOnEndReached(Len(data), range, currentlyFocusedItemIndex,
                        onEndReachedThresholdItemsNumber)
          <=> shouldFetchMore(currentlyFocusedItemIndex, Len(data),
                              onEndReachedThresholdItemsNumber))
  /\ onEndReachedCalls = 1 =>
       /\ Alive
       /\ shouldFetchMore(currentlyFocusedItemIndex, Len(data),
                          onEndReachedThresholdItemsNumber)
  /\ Len(data) = 0 => onEndReachedCalls = 0
  /\ PaginationScenarioHolds

\* onEndReached was called for a focus that is not on the last item but
\* within the threshold of it.
OnEndReachedByPredicateWitness ==
  /\ Alive
  /\ Len(data) = MaxItems
  /\ onEndReachedThresholdItemsNumber = 1
  /\ currentlyFocusedItemIndex = Len(data) - 2
  /\ onEndReachedCalls = 1

\* C16: every change of the focus index to an index where the predicate
\* holds is followed by one call of onEndReached, moves inside the threshold
\* zone included, and a change to an index where it does not hold by none.
OnEndReachedLevelTriggered ==
  [][(Alive' /\ currentlyFocusedItemIndex' # currentlyFocusedItemIndex) =>
       onEndReachedCalls' =
         IF shouldFetchMore(currentlyFocusedItemIndex', Len(data'),
                            onEndReachedThresholdItemsNumber')
         THEN 1 ELSE 0]_vars

\* The focus is on the last item, past the first item of the threshold
\* zone, and onEndReached was called for it.
OnEndReachedLevelTriggeredWitness ==
  /\ Alive
  /\ Len(data) = MaxItems
  /\ onEndReachedThresholdItemsNumber = MaxThreshold
  /\ currentlyFocusedItemIndex = Len(data) - 1
  /\ currentlyFocusedItemIndex > Len(data) - 1 - onEndReachedThresholdItemsNumber
  /\ onEndReachedCalls = 1
  /\ ~offsetsRebuilt

\* ------------------------------------------------------------------------
\* Properties of the grid
\* ------------------------------------------------------------------------
Columns == ValueOf(numberOfColumns)
HasColumns == numberOfColumns # undefined /\ Columns >= 1
\* The rows convertToGrid makes of the data of the grid.
GridRows == convertToGrid(gridData, numberOfColumns, header)
\* The extent the list finds for entry k of the data the grid passes it.
RowExtent(k) == GridItemSize(GridCurrent, At(gridRowsWithHeaderIfProvided, k))

\* The chunking scenario: 24 items in 5 columns.
GridScenario == convertToGrid([k \in 1..24 |-> k - 1], Defined(5), FALSE)

GridScenarioHolds ==
  /\ Len(GridScenario) = 5
  /\ At(GridScenario, 4).items = <<20, 21, 22, 23>>

\* C17: convertToGrid is a row-major partition: with c >= 1 columns it makes
\* ceil(N/c) rows, the item of flat index k is at column k mod c of row
\* floor(k/c), every row but the last has c items and the last has
\* N - c*(ceil(N/c) - 1), with no padding; 24 items in 5 columns make 5 rows,
\* the last of them the items 20..23.
GridIsRowMajorPartition ==
  /\ (GridAlive /\ HasColumns) =>
       /\ Len(GridRows) = CeilDiv(Len(gridData), Columns)
       /\ \A k \in 0..(Len(gridData) - 1) :
            At(At(GridRows, k \div Columns).items, k % Columns) = At(gridData, k)
       /\ \A r \in 0..(Len(GridRows) - 2) : Len(At(GridRows, r).items) = Columns
       /\ Len(GridRows) >= 1 =>
            Len(At(GridRows, Len(GridRows) - 1).items)
              = Len(gridData) - Columns * (CeilDiv(Len(gridData), Columns) - 1)
       /\ gridRowsWithHeaderIfProvided
            = IF hasHeader THEN <<HeaderElement>> \o GridRows ELSE GridRows
  /\ GridScenarioHolds

\* A grid of several full rows and a last row that is not full.
GridIsRowMajorPartitionWitness ==
  /\ GridAlive
  /\ HasColumns
  /\ Columns >= 2
  /\ Len(GridRows) >= 3
  /\ Len(At(GridRows, Len(GridRows) - 1).items) < Columns

\* C18: with a header the data passed to the list has ceil(N/c) + 1 entries,
\* entry 0 is the header with the extent headerSize, the row of chunk k has
\* the index k + 1 and the extent itemHeight; without a header there are
\* ceil(N/c) entries, the row of chunk k has the index k and every entry the
\* extent itemHeight.
GridHeaderShiftsRows ==
  (GridAlive /\ HasColumns) =>
    LET rows == gridRowsWithHeaderIfProvided
        shift == IF header THEN 1 ELSE 0
    IN  /\ Len(rows) = CeilDiv(Len(gridData), Columns) + shift
        /\ header =>
             /\ At(rows, 0) = HeaderElement
             /\ RowExtent(0) = ValueOf(headerSize)
        /\ \A k \in shift..(Len(rows) - 1) :
             /\ At(rows, k).index = k
             /\ At(rows, k).items
                  = Slice(gridData, (k - shift) * Columns, (k - shift + 1) * Columns)
             /\ RowExtent(k) = itemHeight

\* A grid with a header above several rows, the header not as high as a row.
GridHeaderShiftsRowsWitness ==
  /\ GridAlive
  /\ HasColumns
  /\ header
  /\ Len(gridRowsWithHeaderIfProvided) >= 3
  /\ RowExtent(0) # RowExtent(1)

\* A grid is accepted when a header is given if and only if a header size is:
\* else its render throws and makes no rows.
GridHeaderAndSize(sizeGiven) ==
  /\ (header # sizeGiven) =>
       /\ gridError \in {HeaderSizeMissing, HeaderMissing}
       /\ gridRowsWithHeaderIfProvided = <<>>
  /\ (header = sizeGiven) => gridError \notin {HeaderSizeMissing, HeaderMissing}

\* C19: a grid with a header and no headerSize, or with a headerSize and no
\* header, raises an error and makes no rows; a grid with both or with
\* neither is accepted.
GridHeaderNeedsItsSize == GridHeaderAndSize(headerSize # undefined)

\* C19, amended: the same where a headerSize of 0 counts as no headerSize.
GridHeaderNeedsNonZeroSize == GridHeaderAndSize(Truthy(headerSize))

\* A grid with items was given a headerSize and no header: its render threw.
GridHeaderNeedsNonZeroSizeWitness ==
  /\ gridError = HeaderMissing
  /\ ~header
  /\ Truthy(headerSize)
  /\ Len(gridData) >= 1
  /\ HasColumns

\* C20: a grid whose numberOfColumns is missing or 0 raises
\* InvalidConfiguration at construction, and the chunking of every grid
\* terminates.
GridRejectsMissingColumns ==
  /\ (~Truthy(numberOfColumns) /\ gridError # Unmounted
        /\ HeaderChecks(header, headerSize) = NoError) =>
       gridError = InvalidConfiguration
  /\ gridError # Diverges

\* ------------------------------------------------------------------------
\* The render window
\* ------------------------------------------------------------------------
WindowSize == NumberOfItemsToRender(Current)

OverscanCount ==
  IF scrollBehavior = "jump-on-scroll" THEN 2 * Visible
  ELSE Visible + 2 * additionalItemsRendered

InViewport(j, from) ==
  /\ CumulativeExtent(0, j) < from + listSizeInPx
  /\ from < CumulativeExtent(0, j) + Extent(j)

ViewportItemsMaterialized ==
  (Alive /\ scrollBehavior \in ScrollBehavior /\ FocusInRange) =>
    \A j \in Indices :
      InViewport(j, -ValueOf(newTranslationValue)) =>
        (\E k \in 1..Len(dataSliceToRender) : dataSliceToRender[k] = j)

ListSizeComputedOnce ==
  [][hasAlreadyRendered => listSizeInPx' = listSizeInPx]_vars

\* C30: while the container stays mounted the measurement ends: whatever
\* sizes the container reports, measureSize is called at most maxRetries + 1
\* times, and once no call is pending hasAlreadyRendered is true.
MeasurementEnds ==
  /\ measureAttempts <= maxRetries + 1
  /\ measureTimers = <<>> => hasAlreadyRendered

\* ------------------------------------------------------------------------
\* The pointer
\* ------------------------------------------------------------------------
\* C26: while the device type is remotePointer, the focus notification of
\* an item leaves currentlyFocusedItemIndex unchanged; for any other device
\* type the notification of the item at index k sets it to k; in both cases
\* the parent scroll context is then told to scroll to the item.
FocusNotificationByDeviceType ==
  [][\A k \in 1..Len(dataSliceToRender) :
       scrollToItem(dataSliceToRender[k]) =>
         /\ currentlyFocusedItemIndex' =
              IF deviceType = "remotePointer"
              THEN currentlyFocusedItemIndex
              ELSE dataSliceToRender[k]
         /\ parentScrolledTo' = Defined(dataSliceToRender[k])]_vars

\* C27: with data of fixed length N >= 1 and the index in [0, N), a tick of
\* a scroll arrow keeps the index in [0, N - 1]: a descending tick at 0 and
\* an ascending tick at N - 1 leave it unchanged, every other tick moves it
\* by exactly 1.
PointerTicksStayInData ==
  [][\A k \in 1..Len(scrollIntervals) :
       (/\ IntervalTick(k)
        /\ Len(data) >= 1
        /\ scrollIntervals[k].dataLength = Len(data)
        /\ currentlyFocusedItemIndex \in 0..(Len(data) - 1))
       => /\ Len(data') = Len(data)
          /\ currentlyFocusedItemIndex' \in 0..(Len(data) - 1)
          /\ currentlyFocusedItemIndex' =
               IF scrollIntervals[k].direction = "descending"
               THEN IF currentlyFocusedItemIndex = 0
                    THEN 0
                    ELSE currentlyFocusedItemIndex - 1
               ELSE IF currentlyFocusedItemIndex = Len(data) - 1
                    THEN Len(data) - 1
                    ELSE currentlyFocusedItemIndex + 1]_vars

\* Ticks alone, no item having notified its focus, took the index from 0 to
\* the last item, where an ascending interval is still running.
PointerTicksStayInDataWitness ==
  /\ Len(data) >= 2
  /\ currentlyFocusedItemIndex = Len(data) - 1
  /\ parentScrolledTo = Defined(-1)
  /\ \E k \in 1..Len(scrollIntervals) : scrollIntervals[k].direction = "ascending"

\* C28: after onMouseLeave, and until the pointer enters an arrow again, no
\* tick changes currentlyFocusedItemIndex; at most one interval is active at
\* any time.
TicksStopOnMouseLeave ==
  [][/\ (pointerOver = "none" /\ scrollingIntervalId = undefined /\ IntervalTicks)
          => currentlyFocusedItemIndex' = currentlyFocusedItemIndex
     /\ Len(scrollIntervals') <= 1]_vars

\* ------------------------------------------------------------------------
\* The items of the grid
\* ------------------------------------------------------------------------
\* The calls of renderItem when the list renders the entry at index of the
\* data the grid gave it.
RenderItemCalls(index) == renderHeaderThenRows(At(gridRowsWithHeaderIfProvided, index), index)

\* C29: for every item the grid renders, the index passed to renderItem is
\* the position of the item in data, with a header and without one.
GridItemIndexIsPositionInData ==
  GridAlive =>
    \A index \in 0..(Len(gridRowsWithHeaderIfProvided) - 1) :
      \A c \in 1..Len(RenderItemCalls(index)) :
        /\ RenderItemCalls(index)[c].index \in 0..(Len(gridData) - 1)
        /\ At(gridData, RenderItemCalls(index)[c].index) = RenderItemCalls(index)[c].item

\* A grid with a header and an item in the second column of its second row.
GridItemIndexIsPositionInDataWitness ==
  /\ GridAlive
  /\ hasHeader
  /\ Len(gridRowsWithHeaderIfProvided) >= 3
  /\ Len(RenderItemCalls(2)) >= 2
  /\ RenderItemCalls(2)[2].index = ValueOf(numberOfColumns) + 1

====
